---------------------------- MODULE Spec2Model ----------------------------
(***************************************************************************)
(* A model of networkcoding/streaming_parser:                              *)
(*   - RingBuffer       (src/src/ring_buffer.h, src/src/ring_buffer.cc)    *)
(*   - StreamingParser  (src/src/streaming_parser.h)                       *)
(*                                                                         *)
(* The specifications share the definitions of the store:                  *)
(*   SpecStore     one caller issuing write / read / read-with-callback /  *)
(*                 drain on one RingBuffer;                                *)
(*   Spec          one StreamingParser fed a byte stream in chunks;        *)
(*   SpecSteps     the same parser, one step per iteration of the loop of  *)
(*                 HandleData (SpecStepsFair: the thread keeps running);   *)
(*   SpecThreads   several threads calling into one RingBuffer, one step   *)
(*                 per critical section;                                   *)
(*   SpecReentrant one thread whose recv_cb calls back into the store;     *)
(*   SpecClear     one caller who may clear the store, with a store newly  *)
(*                 constructed at the clear run alongside.                 *)
(*                                                                         *)
(* Scaling.  uint32_t is modelled as an unsigned integer modulo UintMod =  *)
(* 2^30 (TLC's integers are 32-bit signed, so 2^32 itself cannot be        *)
(* written); all unsigned sums and differences are reduced modulo UintMod  *)
(* exactly where the C++ reduces them modulo 2^32.  The store of the       *)
(* parser is default-constructed with 2048 bytes in the source; the model  *)
(* constructs it with ParserStoreSize bytes, and frames are sized to it.   *)
(***************************************************************************)
EXTENDS Integers, Sequences, FiniteSets, TLC

(***************************************************************************)
(* Bounds of the model.                                                    *)
(***************************************************************************)
\* capacities of the store under SpecStore and SpecThreads: 2^1 .. 2^MaxCapLog2
MaxCapLog2 == 3
\* lengths passed to write/read/drain range over 0 .. capacity + MaxOver
MaxOver == 2
\* written bytes are numbered 1 .. ByteMod, cyclically, in the order written
ByteMod == 5
\* lengths just below the top of the unsigned range: UintMod - 1 .. UintMod - MaxHugeGap
MaxHugeGap == 2

UintMod == 2 ^ 30

Min(a, b) == IF a <= b THEN a ELSE b

\* an indeterminate byte (memory the program does not own)
Undef == -1

VARIABLES
    ndebug,          \* TRUE: built with NDEBUG (assert compiles to nothing)
    fault,           \* "none", or how the process stopped / left defined behaviour
    rb,              \* the RingBuffer object
    fresh,           \* a second RingBuffer, constructed when rb is cleared, or NoStore
    cleared,         \* how many times the caller has called clear()
    last,            \* the last call: its arguments and what it returned
    fifo,            \* ghost: bytes accepted by write and not yet consumed, oldest first
    net,             \* ghost: accepted write lengths minus amounts read or drained
    wseq,            \* ghost: number (mod ByteMod) of the next byte the caller writes
    recv_state,      \* StreamingParser::recv_state_
    current_header,  \* StreamingParser::current_header_
    frames,          \* the body length each frame of the stream announces
    stream,          \* the bytes of the stream
    pos,             \* how many bytes of the stream HandleData has taken
    log,             \* the handler invocations so far, with arguments and results
    th,              \* SpecThreads: what each thread is doing
    consumed,        \* SpecThreads ghost: the bytes readers have committed, in order
    mutex            \* RingBuffer::mutex_: its owner (0: none) and recursion count

storeOnly == <<fifo, net, wseq>>
parserOnly == <<recv_state, current_header, frames, stream, pos, log>>
threadOnly == <<th, consumed, mutex>>
vars == <<ndebug, fault, rb, fresh, cleared, last, storeOnly, parserOnly, threadOnly>>

(***************************************************************************)
(* Unsigned arithmetic.                                                    *)
(***************************************************************************)
U32(x) == x % UintMod

RECURSIVE BitAnd(_, _)
BitAnd(a, b) ==
    IF a = 0 \/ b = 0 THEN 0
    ELSE (a % 2) * (b % 2) + 2 * BitAnd(a \div 2, b \div 2)

IS_POWER_OF_TWO(x) == x # 0 /\ BitAnd(x, x - 1) = 0

(***************************************************************************)
(* Caller memory.  A caller's array is its first bytes, written out, and   *)
(* one value that fills the rest up to `size` (the tests fill their arrays *)
(* with one value); null is the null pointer.                              *)
(***************************************************************************)
NullData == [null |-> TRUE, bytes |-> <<>>, fill |-> Undef, size |-> 0]

Bytes(seq) == [null |-> FALSE, bytes |-> seq, fill |-> Undef, size |-> Len(seq)]

\* data[i], i counted from 0
DataByte(data, i) ==
    IF i < Len(data.bytes) THEN data.bytes[i + 1]
    ELSE IF i < data.size THEN data.fill ELSE Undef

(***************************************************************************)
(* RingBuffer                                                              *)
(***************************************************************************)
ErrNone == "ok"
ErrBufferOverflow == "BufferOverflow"
ErrInvalidParameter == "InvalidParameter"

\* RingBuffer::RingBuffer(uint32_t size); buffer_[i] is buffer[i + 1]
RingBuffer(size) ==
    [ index_mask     |-> U32(size - 1),
      buffer         |-> [i \in 1..size |-> 0],
      read_index     |-> 0,
      write_index    |-> 0,
      buffered_bytes |-> 0 ]

capacity(s) == Len(s.buffer)

\* returns the int32_t member converted to uint32_t
buffered_bytes(s) == U32(s.buffered_bytes)

empty(s) == s.buffered_bytes = 0

full(s) == s.buffered_bytes = Len(s.buffer)

\* the assert(buffered_bytes_ >= 0) that ends write, read and drain
AssertHolds(s) == s.buffered_bytes >= 0

\* a failed assert aborts the process unless it was built with NDEBUG
AssertOutcome(nd, s) == IF ~nd /\ ~AssertHolds(s) THEN "assert" ELSE "none"

\* std::memcpy(&buffer_[dst], data + off, n): the cells of buffer_ it writes
memcpy_in(buf, dst, data, off, n) ==
    [p \in 1..Len(buf) |->
        IF p - 1 >= dst /\ p - 1 < dst + n
        THEN DataByte(data, off + (p - 1 - dst))
        ELSE buf[p]]

\* std::memcpy(out, &buffer_[src], n): the bytes it reads
memcpy_out(buf, src, n) ==
    [i \in 1..n |-> IF src + i <= Len(buf) THEN buf[src + i] ELSE Undef]

\* a memcpy over [idx, idx + n) leaves buffer_
OutOfBounds(buf, idx, n) == idx + n > Len(buf)

\* mutant of write_overflows: the length is held against the capacity, not
\* against the free space
write_overflows_capacity(s, length) == length > capacity(s)

\* write: `if (buffered_bytes() + length > capacity())`
write_overflows(s, length) == U32(buffered_bytes(s) + length) > capacity(s)

\* write / read: `if (temp_idx + length > capacity())`
range_wraps(s, temp_idx, length) == U32(temp_idx + length) > capacity(s)

\* write, once the two checks have passed: the copy and the index updates
\* oob: one of the memcpy calls wrote outside buffer_ (undefined behaviour)
write_copy(s, data, length) ==
    LET temp_write_idx == BitAnd(s.write_index, s.index_mask)
        wraps == range_wraps(s, temp_write_idx, length)
        left  == capacity(s) - temp_write_idx
        buf   == IF wraps
                 THEN memcpy_in(memcpy_in(s.buffer, temp_write_idx, data, 0, left),
                                0, data, left, length - left)
                 ELSE memcpy_in(s.buffer, temp_write_idx, data, 0, length)
        oob   == IF wraps
                 THEN OutOfBounds(s.buffer, 0, length - left)
                 ELSE OutOfBounds(s.buffer, temp_write_idx, length)
    IN [s   |-> [s EXCEPT !.buffer = buf,
                          !.write_index = U32(temp_write_idx + length),
                          !.buffered_bytes = U32(buffered_bytes(s) + length)],
        err |-> ErrNone,
        oob |-> oob]

\* mutant of write: a write that does not fit stores the bytes that do
write_partial(s, data, length) ==
    IF data.null \/ length = 0
    THEN [s |-> s, err |-> ErrInvalidParameter, oob |-> FALSE]
    ELSE IF write_overflows(s, length)
    THEN [s   |-> IF full(s) THEN s
                  ELSE write_copy(s, data, capacity(s) - buffered_bytes(s)).s,
          err |-> ErrBufferOverflow, oob |-> FALSE]
    ELSE write_copy(s, data, length)

\* std::error_code RingBuffer::write(const uint8_t* data, uint32_t length)
write(s, data, length) ==
    IF data.null \/ length = 0
    THEN [s |-> s, err |-> ErrInvalidParameter, oob |-> FALSE]
    ELSE IF write_overflows(s, length)
    THEN [s |-> s, err |-> ErrBufferOverflow, oob |-> FALSE]
    ELSE write_copy(s, data, length)

\* mutant of read_range: the wraparound split is forgotten
read_range_nosplit(s, temp_read_idx, read_bytes) ==
    memcpy_out(s.buffer, temp_read_idx, read_bytes)

\* the bytes both read overloads take from buffer_: one memcpy, or two on wraparound
read_range(s, temp_read_idx, read_bytes) ==
    IF range_wraps(s, temp_read_idx, read_bytes)
    THEN LET left == capacity(s) - temp_read_idx
         IN memcpy_out(s.buffer, temp_read_idx, left)
              \o memcpy_out(s.buffer, 0, read_bytes - left)
    ELSE memcpy_out(s.buffer, temp_read_idx, read_bytes)

\* uint32_t RingBuffer::read(uint8_t* data, uint32_t length); data_null: data == nullptr
read(s, data_null, length) ==
    IF data_null \/ length = 0 THEN [s |-> s, n |-> 0, out |-> <<>>]
    ELSE IF s.buffered_bytes = 0 THEN [s |-> s, n |-> 0, out |-> <<>>]
    ELSE
      LET temp_read_idx == BitAnd(s.read_index, s.index_mask)
          read_bytes    == Min(length, buffered_bytes(s))
      IN [s   |-> [s EXCEPT !.read_index = U32(temp_read_idx + read_bytes),
                            !.buffered_bytes = s.buffered_bytes - read_bytes],
          n   |-> read_bytes,
          out |-> read_range(s, temp_read_idx, read_bytes)]

\* read(length, recv_cb), first critical section: up to the lock.unlock() before
\* recv_cb.  call: recv_cb is invoked; wrapped: it is handed temp_buffer (a copy),
\* otherwise a pointer to buffer_[temp_read_idx]
read_cb_begin(s, length) ==
    IF length = 0 \/ s.buffered_bytes = 0
    THEN [call |-> FALSE, temp_read_idx |-> 0, read_bytes |-> 0,
          wrapped |-> FALSE, temp_buffer |-> <<>>]
    ELSE
      LET temp_read_idx == BitAnd(s.read_index, s.index_mask)
          read_bytes    == Min(length, buffered_bytes(s))
          wrapped       == range_wraps(s, temp_read_idx, read_bytes)
      IN [call |-> TRUE, temp_read_idx |-> temp_read_idx, read_bytes |-> read_bytes,
          wrapped |-> wrapped,
          temp_buffer |-> IF wrapped THEN read_range(s, temp_read_idx, read_bytes)
                          ELSE <<>>]

\* mutant of read_cb_view: recv_cb is handed &buffer_[temp_read_idx] even when
\* the range wraps
read_cb_view_direct(s, b) == memcpy_out(s.buffer, b.temp_read_idx, b.read_bytes)

\* what recv_cb sees while it runs on store state s: the private copy, or the
\* cells of buffer_ as they are now
read_cb_view(s, b) ==
    IF b.wrapped THEN b.temp_buffer
    ELSE memcpy_out(s.buffer, b.temp_read_idx, b.read_bytes)

\* mutant of read_cb_commit: commits whatever recv_cb returned
read_cb_commit_always(s, b, read_ok) ==
    [s |-> [s EXCEPT !.read_index = U32(b.temp_read_idx + b.read_bytes),
                     !.buffered_bytes = s.buffered_bytes - b.read_bytes],
     n |-> b.read_bytes]

\* read(length, recv_cb), second critical section: from lock.lock() after recv_cb
read_cb_commit(s, b, read_ok) ==
    IF read_ok
    THEN [s |-> [s EXCEPT !.read_index = U32(b.temp_read_idx + b.read_bytes),
                          !.buffered_bytes = s.buffered_bytes - b.read_bytes],
          n |-> b.read_bytes]
    ELSE [s |-> s, n |-> 0]

\* read(length, recv_cb) by one caller whose recv_cb returns read_ok and does not
\* touch the store
read_cb(s, length, read_ok) ==
    LET b == read_cb_begin(s, length)
    IN IF ~b.call THEN [s |-> s, n |-> 0, called |-> FALSE, view |-> <<>>]
       ELSE LET c == read_cb_commit(s, b, read_ok)
            IN [s |-> c.s, n |-> c.n, called |-> TRUE, view |-> read_cb_view(s, b)]

\* mutant of clear: read_index_ is left where it was
clear_keep_read(s) == [s EXCEPT !.write_index = 0, !.buffered_bytes = 0]

\* void RingBuffer::clear()
clear(s) == [s EXCEPT !.read_index = 0, !.write_index = 0, !.buffered_bytes = 0]

\* mutant of drain: the length is not held against buffered_bytes()
drain_unclamped(s, length) ==
    LET temp_read_idx == BitAnd(s.read_index, s.index_mask)
    IN [s EXCEPT !.read_index = BitAnd(U32(temp_read_idx + length), s.index_mask),
                 !.buffered_bytes = s.buffered_bytes - length]

\* void RingBuffer::drain(uint32_t length)
drain(s, length) ==
    LET temp_read_idx == BitAnd(s.read_index, s.index_mask)
        read_bytes    == Min(length, buffered_bytes(s))
    IN [s EXCEPT !.read_index = BitAnd(U32(temp_read_idx + read_bytes), s.index_mask),
                 !.buffered_bytes = s.buffered_bytes - read_bytes]

(***************************************************************************)
(* SpecStore: one caller, one store.                                       *)
(***************************************************************************)
StoreCapacities == {2 ^ k : k \in 1..MaxCapLog2}

\* the caller's bytes are numbered cyclically so that neighbours differ
SrcByte(k) == 1 + (k % ByteMod)

SrcRun(base, n) == [i \in 1..n |-> SrcByte(base + i - 1)]

SmallLengths(s) == 0..(capacity(s) + MaxOver)

HugeLengths == {UintMod - k : k \in 1..MaxHugeGap}

\* contents of the store as its reader would get them: buffered_bytes cells from read_index
Content(s) ==
    [i \in 1..s.buffered_bytes |->
        s.buffer[((BitAnd(s.read_index, s.index_mask) + i - 1) % capacity(s)) + 1]]

NoCall == [op |-> "none"]

\* no second store has been constructed
NoStore == [buffer |-> <<>>]

\* the values the variables of the other specifications keep under this one
StoreUnused == fifo = <<>> /\ net = 0 /\ wseq = 0

ParserUnused ==
    /\ recv_state = "unused"
    /\ current_header = "unused"
    /\ frames = <<>>
    /\ stream = <<>>
    /\ pos = 0
    /\ log = <<>>

\* std::recursive_mutex: no owner
Free == [owner |-> 0, count |-> 0]

ThreadsUnused == th = <<>> /\ consumed = <<>> /\ mutex = Free

StoreInit ==
    /\ ndebug \in BOOLEAN
    /\ fresh = NoStore
    /\ cleared = 0
    /\ fault = "none"
    /\ \E size \in StoreCapacities : rb = RingBuffer(size)
    /\ last = NoCall
    /\ fifo = <<>>
    /\ net = 0
    /\ wseq = 0
    /\ ParserUnused
    /\ ThreadsUnused

\* write(data, length) with data an array of `length` bytes, or null
StoreWrite ==
    /\ fault = "none"
    /\ last = NoCall
    /\ \E length \in SmallLengths(rb), null \in BOOLEAN :
         LET data == IF null THEN NullData ELSE Bytes(SrcRun(wseq, length))
             r    == write(rb, data, length)
         IN /\ rb' = r.s
            /\ fault' = AssertOutcome(ndebug, r.s)
            /\ last' = [op |-> "write", length |-> length, null |-> null,
                        err |-> r.err, before |-> rb]
            /\ fifo' = IF r.err = ErrNone THEN fifo \o data.bytes ELSE fifo
            /\ net' = IF r.err = ErrNone THEN net + length ELSE net
            /\ wseq' = IF r.err = ErrNone THEN (wseq + length) % ByteMod ELSE wseq
    /\ UNCHANGED <<ndebug, fresh, cleared, parserOnly, threadOnly>>

\* write(data, length) with data an array of `length` bytes, length near the top
\* of the unsigned range.  If the write is admitted its memcpy leaves buffer_:
\* the process crashes in it, or goes on with whatever the call computed.
StoreWriteHuge ==
    /\ fault = "none"
    /\ last = NoCall
    /\ \E length \in HugeLengths :
         LET data == [null |-> FALSE, bytes |-> SrcRun(wseq, capacity(rb)),
                      fill |-> SrcByte(wseq), size |-> length]
             r    == write(rb, data, length)
             call == [op |-> "write", length |-> length, null |-> FALSE,
                      err |-> r.err, before |-> rb]
         IN IF r.oob
            THEN \/ /\ fault' = "crash"
                    /\ last' = [call EXCEPT !.err = "no return"]
                    /\ UNCHANGED <<rb, net>>
                 \/ /\ fault' = "undefined"
                    /\ last' = call
                    /\ rb' = r.s
                    /\ net' = net + length
            ELSE /\ rb' = r.s
                 /\ last' = call
                 /\ net' = IF r.err = ErrNone THEN net + length ELSE net
                 /\ UNCHANGED fault
    /\ UNCHANGED <<ndebug, fresh, cleared, fifo, wseq, parserOnly, threadOnly>>

\* read(data, length) into an array of `length` bytes, or into null
StoreRead ==
    /\ fault = "none"
    /\ last = NoCall
    /\ \E length \in SmallLengths(rb), data_null \in BOOLEAN :
         LET r      == read(rb, data_null, length)
             expect == IF data_null THEN <<>>
                       ELSE SubSeq(fifo, 1, Min(length, Len(fifo)))
         IN /\ rb' = r.s
            /\ fault' = AssertOutcome(ndebug, r.s)
            /\ last' = [op |-> "read", length |-> length, null |-> data_null,
                        n |-> r.n, out |-> r.out, expect |-> expect, before |-> rb]
            /\ fifo' = SubSeq(fifo, Len(expect) + 1, Len(fifo))
            /\ net' = net - r.n
    /\ UNCHANGED <<ndebug, fresh, cleared, wseq, parserOnly, threadOnly>>

\* read(length, recv_cb) with a callback that returns read_ok
StoreReadCb ==
    /\ fault = "none"
    /\ last = NoCall
    /\ \E length \in SmallLengths(rb), read_ok \in BOOLEAN :
         LET r      == read_cb(rb, length, read_ok)
             expect == SubSeq(fifo, 1, Min(length, Len(fifo)))
         IN /\ rb' = r.s
            /\ fault' = AssertOutcome(ndebug, r.s)
            /\ last' = [op |-> "read_cb", length |-> length, read_ok |-> read_ok,
                        n |-> r.n, called |-> r.called, out |-> r.view,
                        expect |-> expect, before |-> rb]
            /\ fifo' = IF read_ok THEN SubSeq(fifo, Len(expect) + 1, Len(fifo)) ELSE fifo
            /\ net' = net - r.n
    /\ UNCHANGED <<ndebug, fresh, cleared, wseq, parserOnly, threadOnly>>

StoreDrain ==
    /\ fault = "none"
    /\ last = NoCall
    /\ \E length \in SmallLengths(rb) :
         /\ rb' = drain(rb, length)
         /\ fault' = AssertOutcome(ndebug, rb')
         /\ last' = [op |-> "drain", length |-> length, before |-> rb]
         /\ fifo' = SubSeq(fifo, Min(length, Len(fifo)) + 1, Len(fifo))
         /\ net' = net - Min(length, net)
    /\ UNCHANGED <<ndebug, fresh, cleared, wseq, parserOnly, threadOnly>>

\* the caller has taken the result of its last call; its next call can start
StoreReturn ==
    /\ fault = "none"
    /\ last # NoCall
    /\ last' = NoCall
    /\ UNCHANGED <<ndebug, fresh, cleared, fault, rb, storeOnly, parserOnly, threadOnly>>

StoreNext ==
    \/ StoreWrite
    \/ StoreWriteHuge
    \/ StoreRead
    \/ StoreReadCb
    \/ StoreDrain
    \/ StoreReturn

SpecStore == StoreInit /\ [][StoreNext]_vars

(***************************************************************************)
(* StreamingParser<ProtoHeader>, instantiated with                         *)
(*     struct ProtoHeader { uint16_t msg_type; uint16_t body_length; };    *)
(* on a little-endian host (ntohs swaps the two bytes).                    *)
(***************************************************************************)
\* sizeof(ProtoHeader)
protocol_header_length == 4

\* log2 of the size the parser's recv_buffer_ is constructed with in the model
ParserCapLog2 == 4

ParserStoreSize == 2 ^ ParserCapLog2

READ_HEADER == "READ_HEADER"
READ_BODY == "READ_BODY"

\* a uint16_t field as the host loads it from two consecutive bytes of memory
HostLoad16(b0, b1) == b0 + 256 * b1

ntohs(v) == (v % 256) * 256 + (v \div 256)

\* the ProtoHeader that the four bytes copied over current_header_ make
HeaderFromBytes(b) ==
    [msg_type |-> HostLoad16(b[1], b[2]), body_length |-> HostLoad16(b[3], b[4])]

\* mutant of DoBytesOrderConversion: the conversion is left out
DoBytesOrderConversion_none(header) == header

\* void StreamingParser::DoBytesOrderConversion(ProtoHeader& header)
DoBytesOrderConversion(header) ==
    [header EXCEPT !.body_length = ntohs(header.body_length)]

HeaderCall(header, result) == [kind |-> "header", header |-> header, ok |-> result]

BodyCall(data, length, result) ==
    [kind |-> "body", data |-> data, length |-> length, ok |-> result]

\* mutant of AfterHeader: a header that header_handler_ refuses is dropped
AfterHeader_checked(hv) == IF hv THEN READ_BODY ELSE READ_HEADER

\* the state after a header: `header_handler_(current_header_);` discards the
\* result hv, then `recv_state_ = RecvState::READ_BODY;`
AfterHeader(hv) == READ_BODY

\* mutant of AfterBody: the parser stays in READ_BODY when read returned 0
AfterBody_kept(n) == IF n > 0 THEN READ_HEADER ELSE READ_BODY

\* the state after a body: the value n that recv_buffer_.read returns is
\* discarded, then `recv_state_ = RecvState::READ_HEADER;`
AfterBody(n) == READ_HEADER

\* The parser object p is [recv_state, current_header, rb, log, fault].
\* bool StreamingParser::PerformStreamingParse(), in which the handler returns hv
\* if one is invoked (called: one was); nd: built with NDEBUG
PerformStreamingParse(p, nd, hv) ==
    IF p.recv_state = READ_HEADER
    THEN IF buffered_bytes(p.rb) >= protocol_header_length
         THEN LET r == read(p.rb, FALSE, protocol_header_length)
                  h == DoBytesOrderConversion(HeaderFromBytes(r.out))
              IN [p |-> [p EXCEPT !.rb = r.s,
                                  !.current_header = h,
                                  !.log = Append(@, HeaderCall(h, hv)),
                                  !.recv_state = AfterHeader(hv)],
                  wait |-> FALSE, called |-> TRUE]
         ELSE [p |-> p, wait |-> TRUE, called |-> FALSE]
    ELSE IF ~nd /\ ~(p.current_header.body_length > 0)
         THEN \* assert(current_header_.body_length > 0) aborts
              [p |-> [p EXCEPT !.fault = "assert"], wait |-> TRUE, called |-> FALSE]
         ELSE IF buffered_bytes(p.rb) >= p.current_header.body_length
         THEN LET r == read_cb(p.rb, p.current_header.body_length, hv)
              IN [p |-> [p EXCEPT !.rb = r.s,
                                  !.log = IF r.called
                                          THEN Append(@, BodyCall(r.view, Len(r.view), hv))
                                          ELSE @,
                                  !.recv_state = AfterBody(r.n),
                                  !.current_header.body_length = 0],
                  wait |-> FALSE, called |-> r.called]
         ELSE [p |-> p, wait |-> TRUE, called |-> FALSE]

\* mutant of LoopCondition: a body is taken up only when more than body_length
\* bytes are buffered
LoopCondition_strict(p) ==
    \/ /\ p.recv_state = READ_HEADER
       /\ buffered_bytes(p.rb) >= protocol_header_length
    \/ /\ p.recv_state = READ_BODY
       /\ buffered_bytes(p.rb) > p.current_header.body_length

\* the condition of HandleData's while loop
LoopCondition(p) ==
    \/ /\ p.recv_state = READ_HEADER
       /\ buffered_bytes(p.rb) >= protocol_header_length
    \/ /\ p.recv_state = READ_BODY
       /\ buffered_bytes(p.rb) >= p.current_header.body_length

\* mutant of ParseLoop: `if` in place of `while`
ParseLoop_once(p, nd, verdicts) ==
    IF p.fault = "none" /\ LoopCondition(p)
    THEN PerformStreamingParse(p, nd, IF verdicts = <<>> THEN TRUE ELSE Head(verdicts)).p
    ELSE p

\* HandleData's while loop; the k-th handler invocation in it (header_handler_
\* or body_handler_) returns verdicts[k], and TRUE past the end of verdicts
RECURSIVE ParseLoop(_, _, _)
ParseLoop(p, nd, verdicts) ==
    IF p.fault = "none" /\ LoopCondition(p)
    THEN LET hv == IF verdicts = <<>> THEN TRUE ELSE Head(verdicts)
             r  == PerformStreamingParse(p, nd, hv)
         IN IF r.wait THEN r.p
            ELSE ParseLoop(r.p, nd,
                           IF r.called /\ verdicts # <<>>
                           THEN Tail(verdicts) ELSE verdicts)
    ELSE p

\* mutant of HandleData_returns: every error of write fails the call
HandleData_returns_strict(err) == err = ErrNone

\* HandleData: `if (err == RingBuffer::ErrBufferOverflow) return false;` ... `return true;`
HandleData_returns(err) == err # ErrBufferOverflow

\* bool StreamingParser::HandleData(const uint8_t* data, uint32_t length)
HandleData(p, nd, data, length, verdicts) ==
    LET w == write(p.rb, data, length)
        q == [p EXCEPT !.rb = w.s]
    IN IF ~HandleData_returns(w.err)
       THEN [p |-> q, ret |-> FALSE, err |-> w.err]
       ELSE [p |-> ParseLoop(q, nd, verdicts), ret |-> TRUE, err |-> w.err]

(***************************************************************************)
(* Spec: one parser, fed the bytes of a stream of frames in chunks.        *)
(***************************************************************************)
\* frames per stream
MaxFrames == 2
\* bytes per HandleData call
MaxChunk == 6
\* handler results chosen per HandleData call (later invocations return true)
MaxVerdicts == 1

\* a body length no store of ParserStoreSize bytes can hold: its two bytes differ
BigLength == 258

\* body lengths a frame announces
BodyLengths == {0, 1, 6, BigLength}

\* how many body bytes of a frame the stream carries: all of them, or, of a body
\* too long for the store, enough to fill the store and one more
WireBodyLength(len) == IF len <= ParserStoreSize THEN len ELSE ParserStoreSize + 1

MsgTypeByte0(k) == 16 + k
MsgTypeByte1(k) == 32 + k
BodyByte(k, i) == 64 + 32 * (k % 4) + i

\* frame k on the wire: msg_type in host order, body_length big-endian, body
FrameBytes(k, len) ==
    <<MsgTypeByte0(k), MsgTypeByte1(k), len \div 256, len % 256>>
      \o [i \in 1..WireBodyLength(len) |-> BodyByte(k, i)]

RECURSIVE StreamOf(_, _)
StreamOf(fs, k) ==
    IF k > Len(fs) THEN <<>> ELSE FrameBytes(k, fs[k]) \o StreamOf(fs, k + 1)

\* the streams: up to MaxFrames frames; a body too long for the store is never
\* complete, so whatever follows its header is its body and it is the last frame
FrameSeqs ==
    {fs \in UNION {[1..n -> BodyLengths] : n \in 1..MaxFrames} :
        \A k \in 1..(Len(fs) - 1) : fs[k] <= ParserStoreSize}

Parser == [recv_state |-> recv_state, current_header |-> current_header,
           rb |-> rb, log |-> log, fault |-> fault]

\* the parser as constructed: current_header_ is not initialised
NewParser ==
    [recv_state |-> READ_HEADER,
     current_header |-> [msg_type |-> Undef, body_length |-> Undef],
     rb |-> RingBuffer(ParserStoreSize), log |-> <<>>, fault |-> "none"]

Init ==
    /\ ndebug \in BOOLEAN
    /\ fresh = NoStore
    /\ cleared = 0
    /\ fault = "none"
    /\ rb = NewParser.rb
    /\ recv_state = NewParser.recv_state
    /\ current_header = NewParser.current_header
    /\ log = <<>>
    /\ last = NoCall
    /\ frames \in FrameSeqs
    /\ stream = StreamOf(frames, 1)
    /\ pos = 0
    /\ StoreUnused
    /\ ThreadsUnused

SetParser(p) ==
    /\ recv_state' = p.recv_state
    /\ current_header' = p.current_header
    /\ rb' = p.rb
    /\ log' = p.log
    /\ fault' = p.fault

\* HandleData(data, length) with the next `length` bytes of the stream.  A chunk
\* that is refused stays with the caller.
FeedChunk ==
    /\ fault = "none"
    /\ last = NoCall
    /\ \E length \in 0..Min(MaxChunk, Len(stream) - pos),
          verdicts \in [1..MaxVerdicts -> BOOLEAN] :
         LET data == Bytes(SubSeq(stream, pos + 1, pos + length))
             r    == HandleData(Parser, ndebug, data, length, verdicts)
         IN /\ SetParser(r.p)
            /\ pos' = IF r.err = ErrNone THEN pos + length ELSE pos
            /\ last' = [op |-> "HandleData", length |-> length, null |-> FALSE,
                        ret |-> r.ret, err |-> r.err, before |-> Parser]
    /\ UNCHANGED <<ndebug, fresh, cleared, frames, stream, storeOnly, threadOnly>>

\* HandleData(nullptr, length)
FeedNull ==
    /\ fault = "none"
    /\ last = NoCall
    /\ \E length \in 0..1, verdicts \in [1..MaxVerdicts -> BOOLEAN] :
         LET r == HandleData(Parser, ndebug, NullData, length, verdicts)
         IN /\ SetParser(r.p)
            /\ last' = [op |-> "HandleData", length |-> length, null |-> TRUE,
                        ret |-> r.ret, err |-> r.err, before |-> Parser]
    /\ UNCHANGED <<ndebug, fresh, cleared, frames, stream, pos, storeOnly, threadOnly>>

\* the caller has taken the result of its last call; its next call can start
ParserReturn ==
    /\ fault = "none"
    /\ last # NoCall
    /\ last' = NoCall
    /\ UNCHANGED <<ndebug, fresh, cleared, fault, rb, recv_state, current_header, log,
                   frames, stream, pos, storeOnly, threadOnly>>

Next ==
    \/ FeedChunk
    \/ FeedNull
    \/ ParserReturn

Spec == Init /\ [][Next]_vars

(***************************************************************************)
(* SpecSteps: the parser of Spec with HandleData taken apart: the write    *)
(* and the overflow test, then one step per iteration of the while loop,   *)
(* then the return.  last is the call in progress.                         *)
(***************************************************************************)
NoStep == [called |-> FALSE]

\* HandleData(data, length) up to the while loop, with the next `length` bytes
\* of the stream or with data == nullptr
StepBegin ==
    /\ fault = "none"
    /\ last = NoCall
    /\ \E length \in 0..Min(MaxChunk, Len(stream) - pos), null \in BOOLEAN :
         /\ null => length <= 1
         /\ LET data == IF null THEN NullData
                        ELSE Bytes(SubSeq(stream, pos + 1, pos + length))
                w    == write(rb, data, length)
            IN /\ rb' = w.s
               /\ pos' = IF w.err = ErrNone THEN pos + length ELSE pos
               /\ last' = [op |-> "HandleData", length |-> length, null |-> null,
                           err |-> w.err, ret |-> HandleData_returns(w.err),
                           at |-> IF HandleData_returns(w.err) THEN "loop" ELSE "return",
                           stepped |-> FALSE, odd |-> FALSE,
                           step |-> NoStep]
    /\ UNCHANGED <<ndebug, fresh, cleared, fault, recv_state, current_header, log, frames, stream,
                   storeOnly, threadOnly>>

\* one iteration of the while loop: PerformStreamingParse(), in which the
\* handler, if one is invoked, returns hv.  last.odd is the parity of the
\* number of iterations run, so an iteration that changes nothing in the
\* parser is a step all the same
StepParse ==
    /\ fault = "none"
    /\ last # NoCall
    /\ last.at = "loop"
    /\ LoopCondition(Parser)
    /\ \E hv \in BOOLEAN :
         LET r == PerformStreamingParse(Parser, ndebug, hv)
         IN /\ SetParser(r.p)
            /\ last' = [last EXCEPT !.at = IF r.p.fault # "none" THEN "abort"
                                           ELSE IF r.wait THEN "return" ELSE "loop",
                                    !.stepped = TRUE,
                                    !.odd = ~last.odd,
                                    !.step = [called |-> r.called, pre |-> Parser,
                                              hv |-> r.called /\ hv]]
    /\ UNCHANGED <<ndebug, fresh, cleared, frames, stream, pos, storeOnly, threadOnly>>

\* the while condition is false: `return true;`
StepExit ==
    /\ fault = "none"
    /\ last # NoCall
    /\ last.at = "loop"
    /\ ~LoopCondition(Parser)
    /\ last' = [last EXCEPT !.at = "return"]
    /\ UNCHANGED <<ndebug, fresh, cleared, fault, rb, recv_state, current_header, log,
                   frames, stream, pos, storeOnly, threadOnly>>

\* the caller has the result of HandleData; its next call can start
StepReturn ==
    /\ fault = "none"
    /\ last # NoCall
    /\ last.at = "return"
    /\ last' = NoCall
    /\ UNCHANGED <<ndebug, fresh, cleared, fault, rb, recv_state, current_header, log,
                   frames, stream, pos, storeOnly, threadOnly>>

StepsNext ==
    \/ StepBegin
    \/ StepParse
    \/ StepExit
    \/ StepReturn

SpecSteps == Init /\ [][StepsNext]_vars

\* the thread is inside the while loop of HandleData and has not aborted
Running == fault = "none" /\ last # NoCall /\ last.at = "loop"

\* Running is exactly the enabling condition of the loop's next step: the loop
\* condition is either true (StepParse) or false (StepExit), and either step
\* changes last
RunningIsEnabled == Running <=> ENABLED <<StepParse \/ StepExit>>_vars

\* the thread inside HandleData keeps running: weak fairness of the loop's
\* next step, WF_vars(StepParse \/ StepExit), written out with Running for
\* ENABLED <<StepParse \/ StepExit>>_vars
SpecStepsFair ==
    /\ SpecSteps
    /\ \/ []<>(~Running)
       \/ []<><<StepParse \/ StepExit>>_vars

(***************************************************************************)
(* SpecThreads: threads calling one store.  A step is one critical section *)
(* of mutex_: a whole write, copying read or drain, and of the zero-copy   *)
(* read the part up to lock.unlock() and the part from lock.lock(); recv_cb *)
(* runs between the two with mutex_ free.  The model follows the store up  *)
(* to the first negative buffered_bytes_.                                  *)
(***************************************************************************)
\* threads calling the store
NThreads == 2
\* bytes written to the store in one behaviour, each with a value of its own
MaxWritten == 3
\* the longest length a thread passes
MaxThLen == 2

\* log2 of the capacity of the store the threads share
ThreadCapLog2 == 1

ThreadStoreSize == 2 ^ ThreadCapLog2

Threads == 1..NThreads

\* mutex_.lock() by thread t returns: no other thread owns mutex_
CanLock(m, t) == m.owner = 0 \/ m.owner = t

\* std::recursive_mutex::lock by thread t, once CanLock
mutex_lock(m, t) == [owner |-> t, count |-> m.count + 1]

\* std::recursive_mutex::unlock by the owner
mutex_unlock(m) == IF m.count <= 1 THEN Free ELSE [m EXCEPT !.count = @ - 1]

\* mutant of UnlockForCallback: recv_cb is called with mutex_ held
UnlockForCallback_held(m) == m

\* read(length, recv_cb): `lock.unlock();` before recv_cb, in both branches
UnlockForCallback(m) == mutex_unlock(m)

Idle == [pc |-> "idle"]

ThreadsInit ==
    /\ ndebug \in BOOLEAN
    /\ fresh = NoStore
    /\ cleared = 0
    /\ fault = "none"
    /\ rb = RingBuffer(ThreadStoreSize)
    /\ last = NoCall
    /\ StoreUnused
    /\ ParserUnused
    /\ th = [t \in Threads |-> Idle]
    /\ consumed = <<>>
    /\ mutex = Free

\* thread t: write(data, length)
ThWrite(t) ==
    /\ fault = "none"
    /\ AssertHolds(rb)
    /\ CanLock(mutex, t)
    /\ th[t] = Idle
    /\ \E length \in 1..Min(MaxThLen, MaxWritten - wseq) :
         LET r == write(rb, Bytes([i \in 1..length |-> wseq + i]), length)
         IN /\ rb' = r.s
            /\ fault' = AssertOutcome(ndebug, r.s)
            /\ wseq' = IF r.err = ErrNone THEN wseq + length ELSE wseq
    /\ UNCHANGED <<ndebug, fresh, cleared, last, fifo, net, parserOnly, threadOnly>>

\* thread t: read(data, length), the bytes it returns are the reader's
ThRead(t) ==
    /\ fault = "none"
    /\ AssertHolds(rb)
    /\ CanLock(mutex, t)
    /\ th[t] = Idle
    /\ \E length \in 1..MaxThLen :
         LET r == read(rb, FALSE, length)
         IN /\ rb' = r.s
            /\ fault' = AssertOutcome(ndebug, r.s)
            /\ consumed' = consumed \o r.out
    /\ UNCHANGED <<ndebug, fresh, cleared, last, storeOnly, parserOnly, th, mutex>>

\* thread t: drain(length)
ThDrain(t) ==
    /\ fault = "none"
    /\ AssertHolds(rb)
    /\ CanLock(mutex, t)
    /\ th[t] = Idle
    /\ \E length \in 1..MaxThLen :
         /\ rb' = drain(rb, length)
         /\ fault' = AssertOutcome(ndebug, rb')
    /\ UNCHANGED <<ndebug, fresh, cleared, last, storeOnly, parserOnly, threadOnly>>

\* thread t: read(length, recv_cb) up to the call of recv_cb; seen is what
\* recv_cb is handed
ThReadCbBegin(t) ==
    /\ fault = "none"
    /\ AssertHolds(rb)
    /\ CanLock(mutex, t)
    /\ th[t] = Idle
    /\ \E length \in 1..MaxThLen :
         LET b == read_cb_begin(rb, length)
         IN IF b.call
            THEN /\ th' = [th EXCEPT ![t] = [pc |-> "in_cb", b |-> b,
                                             seen |-> read_cb_view(rb, b)]]
                 /\ mutex' = UnlockForCallback(mutex_lock(mutex, t))
            ELSE UNCHANGED <<th, mutex>>
    /\ UNCHANGED <<ndebug, fresh, cleared, fault, rb, last, storeOnly, parserOnly, consumed>>

\* thread t: recv_cb has returned read_ok; read(length, recv_cb) from lock.lock()
ThReadCbEnd(t) ==
    /\ fault = "none"
    /\ AssertHolds(rb)
    /\ CanLock(mutex, t)
    /\ th[t].pc = "in_cb"
    /\ \E read_ok \in BOOLEAN :
         LET c == read_cb_commit(rb, th[t].b, read_ok)
         IN /\ rb' = c.s
            /\ fault' = AssertOutcome(ndebug, c.s)
            /\ consumed' = IF read_ok THEN consumed \o th[t].seen ELSE consumed
    /\ th' = [th EXCEPT ![t] = Idle]
    /\ mutex' = mutex_unlock(mutex_lock(mutex, t))
    /\ UNCHANGED <<ndebug, fresh, cleared, last, storeOnly, parserOnly>>

ThreadsNext ==
    \E t \in Threads :
       \/ ThWrite(t)
       \/ ThRead(t)
       \/ ThDrain(t)
       \/ ThReadCbBegin(t)
       \/ ThReadCbEnd(t)

SpecThreads == ThreadsInit /\ [][ThreadsNext]_vars

\* C15.  mutex_ is not held while recv_cb runs, whether the range wraps (recv_cb
\* is handed the copy) or not: while a thread is in recv_cb no thread owns
\* mutex_, so a write, read or drain of another thread can complete, and a
\* call into the store by the thread in recv_cb gets the lock.
C15_LockReleased ==
    \A t \in Threads :
      (fault = "none" /\ AssertHolds(rb) /\ th[t].pc = "in_cb") =>
        /\ mutex.owner = 0
        /\ CanLock(mutex, t)
        /\ \A u \in Threads \ {t} :
             th[u] = Idle =>
               /\ ENABLED ThRead(u)
               /\ ENABLED ThDrain(u)
               /\ wseq < MaxWritten => ENABLED ThWrite(u)

\* thread 1 is in recv_cb with the copy of a range that wraps, and since it was
\* handed the two bytes another thread's read or drain has completed
C15_Witness ==
    /\ fault = "none"
    /\ th[1].pc = "in_cb"
    /\ th[1].b.wrapped
    /\ th[1].b.read_bytes = 2
    /\ rb.buffered_bytes < 2
    /\ th[2] = Idle

(***************************************************************************)
(* SpecReentrant: one thread calling one store, whose recv_cb calls back   *)
(* into the store while read(length, recv_cb) waits for it.  th is the     *)
(* stack of the zero-copy reads in progress, fifo the bytes written and    *)
(* not yet consumed.  The model follows the store up to the first negative *)
(* buffered_bytes_.                                                        *)
(***************************************************************************)
\* zero-copy reads in progress at a time (a recv_cb calling read(length, recv_cb))
MaxNesting == 1

\* seq without the elements of gone
RECURSIVE Without(_, _)
Without(seq, gone) ==
    IF seq = <<>> THEN <<>>
    ELSE IF \E i \in 1..Len(gone) : gone[i] = Head(seq)
    THEN Without(Tail(seq), gone)
    ELSE <<Head(seq)>> \o Without(Tail(seq), gone)

ReInit ==
    /\ ndebug \in BOOLEAN
    /\ fresh = NoStore
    /\ cleared = 0
    /\ fault = "none"
    /\ rb = RingBuffer(ThreadStoreSize)
    /\ last = NoCall
    /\ StoreUnused
    /\ ParserUnused
    /\ ThreadsUnused

\* write(data, length), by the caller or by the recv_cb in progress
ReWrite ==
    /\ fault = "none"
    /\ AssertHolds(rb)
    /\ \E length \in 1..Min(MaxThLen, MaxWritten - wseq) :
         LET data == [i \in 1..length |-> wseq + i]
             r    == write(rb, Bytes(data), length)
         IN /\ rb' = r.s
            /\ fault' = AssertOutcome(ndebug, r.s)
            /\ wseq' = IF r.err = ErrNone THEN wseq + length ELSE wseq
            /\ fifo' = IF r.err = ErrNone THEN fifo \o data ELSE fifo
    /\ UNCHANGED <<ndebug, fresh, cleared, last, net, parserOnly, threadOnly>>

\* read(data, length), by the caller or by the recv_cb in progress
ReRead ==
    /\ fault = "none"
    /\ AssertHolds(rb)
    /\ \E length \in 1..MaxThLen :
         LET r == read(rb, FALSE, length)
         IN /\ rb' = r.s
            /\ fault' = AssertOutcome(ndebug, r.s)
            /\ fifo' = Without(fifo, r.out)
    /\ UNCHANGED <<ndebug, fresh, cleared, last, net, wseq, parserOnly, threadOnly>>

\* drain(length), by the caller or by the recv_cb in progress
ReDrain ==
    /\ fault = "none"
    /\ AssertHolds(rb)
    /\ \E length \in 1..MaxThLen :
         /\ rb' = drain(rb, length)
         /\ fault' = AssertOutcome(ndebug, rb')
         /\ fifo' = SubSeq(fifo, Min(length, Len(fifo)) + 1, Len(fifo))
    /\ UNCHANGED <<ndebug, fresh, cleared, last, net, wseq, parserOnly, threadOnly>>

\* clear(), by the caller or by the recv_cb in progress
ReClear ==
    /\ fault = "none"
    /\ AssertHolds(rb)
    /\ rb' = clear(rb)
    /\ fifo' = <<>>
    /\ UNCHANGED <<ndebug, fresh, cleared, fault, last, net, wseq, parserOnly, threadOnly>>

\* read(length, recv_cb) up to the call of recv_cb
ReReadCbBegin ==
    /\ fault = "none"
    /\ AssertHolds(rb)
    /\ Len(th) < MaxNesting
    /\ \E length \in 1..MaxThLen :
         LET b == read_cb_begin(rb, length)
         IN /\ b.call
            /\ th' = <<[b |-> b, seen |-> read_cb_view(rb, b)]>> \o th
    /\ UNCHANGED <<ndebug, fresh, cleared, fault, rb, last, storeOnly, parserOnly, consumed, mutex>>

\* the innermost recv_cb returns read_ok; read(length, recv_cb) from lock.lock()
ReReadCbEnd ==
    /\ fault = "none"
    /\ AssertHolds(rb)
    /\ th # <<>>
    /\ \E read_ok \in BOOLEAN :
         LET c == read_cb_commit(rb, Head(th).b, read_ok)
         IN /\ rb' = c.s
            /\ fault' = AssertOutcome(ndebug, c.s)
            /\ fifo' = IF read_ok THEN Without(fifo, Head(th).seen) ELSE fifo
            /\ last' = [op |-> "read_cb", read_ok |-> read_ok, n |-> c.n]
    /\ th' = Tail(th)
    /\ UNCHANGED <<ndebug, fresh, cleared, net, wseq, parserOnly, consumed, mutex>>

\* the caller has taken the result of its zero-copy read
ReReturn ==
    /\ fault = "none"
    /\ AssertHolds(rb)
    /\ last # NoCall
    /\ last' = NoCall
    /\ UNCHANGED <<ndebug, fresh, cleared, fault, rb, storeOnly, parserOnly, threadOnly>>

ReNext ==
    \/ ReWrite
    \/ ReRead
    \/ ReDrain
    \/ ReClear
    \/ ReReadCbBegin
    \/ ReReadCbEnd
    \/ ReReturn

SpecReentrant == ReInit /\ [][ReNext]_vars

(***************************************************************************)
(* Claims about the store under SpecThreads.                               *)
(***************************************************************************)
\* C5.  Thread safety of the store: under every interleaving of write, copying
\* read, zero-copy read and drain of two or more threads, buffered_bytes stays
\* between 0 and capacity and no byte is handed to and committed by more than
\* one reader.
C5_ThreadSafety ==
    /\ 0 <= rb.buffered_bytes
    /\ rb.buffered_bytes <= capacity(rb)
    /\ \A i, j \in 1..Len(consumed) : i # j => consumed[i] # consumed[j]

(***************************************************************************)
(* Claims about the parser under Spec.                                     *)
(***************************************************************************)
\* the handler invocations of the last HandleData call
NewCalls == SubSeq(log, Len(last.before.log) + 1, Len(log))

IsDecline(c) == c.kind = "body" /\ ~c.ok

\* the invocations without the results the handlers returned
Calls(l) ==
    [i \in 1..Len(l) |->
        IF l[i].kind = "header"
        THEN [kind |-> "header", header |-> l[i].header]
        ELSE [kind |-> "body", data |-> l[i].data, length |-> l[i].length]]

\* C1.  A body the handler declines stays buffered, the parser stays in
\* READ_BODY with the body length it had, no handler is invoked after the
\* decline in that call, and the next call offers the same body again.
C1_DeclineKeepsBody ==
    last.op = "HandleData" =>
      /\ \A i \in 1..Len(NewCalls) :
           IsDecline(NewCalls[i]) =>
             /\ i = Len(NewCalls)
             /\ recv_state = READ_BODY
             /\ current_header.body_length = NewCalls[i].length
             /\ rb.buffered_bytes >= NewCalls[i].length
             /\ SubSeq(Content(rb), 1, NewCalls[i].length) = NewCalls[i].data
      /\ (/\ last.ret
          /\ last.before.log # <<>>
          /\ IsDecline(last.before.log[Len(last.before.log)]))
           => /\ NewCalls # <<>>
              /\ NewCalls[1].kind = "body"
              /\ NewCalls[1].data = last.before.log[Len(last.before.log)].data

\* where frame k starts in the stream (0-based offset)
RECURSIVE FrameOffset(_)
FrameOffset(k) ==
    IF k = 1 THEN 0
    ELSE FrameOffset(k - 1) + protocol_header_length + WireBodyLength(frames[k - 1])

\* every frame of the stream has a body that fits the store
FramesFit == \A k \in 1..Len(frames) : 0 < frames[k] /\ frames[k] <= ParserStoreSize

\* every frame of the stream announces at least one body byte
FramesNonEmpty == \A k \in 1..Len(frames) : 0 < frames[k]

\* what the handlers are to be invoked with once the first n bytes of the stream
\* have arrived: per frame, the header as soon as its last byte is there (length
\* field read big-endian from the wire, msg_type as the host reads its two
\* bytes), then the body as soon as its last byte is there
RECURSIVE ExpectedCalls(_, _)
ExpectedCalls(k, n) ==
    IF k > Len(frames) THEN <<>>
    ELSE LET off == FrameOffset(k)
             len == 256 * stream[off + 3] + stream[off + 4]
             hdr == [kind |-> "header",
                     header |-> [msg_type |-> stream[off + 1] + 256 * stream[off + 2],
                                 body_length |-> len]]
             bdy == [kind |-> "body",
                     data |-> SubSeq(stream, off + protocol_header_length + 1,
                                     off + protocol_header_length + len),
                     length |-> len]
         IN (IF n >= off + protocol_header_length THEN <<hdr>> ELSE <<>>)
              \o (IF n >= off + protocol_header_length + len THEN <<bdy>> ELSE <<>>)
              \o ExpectedCalls(k + 1, n)

\* what a caller can observe of a parser: its state, its header record, the bytes
\* it still buffers, and the handler invocations it made
View(p) ==
    [recv_state |-> p.recv_state, current_header |-> p.current_header,
     content |-> Content(p.rb), log |-> p.log, fault |-> p.fault]

\* a new parser given the first n bytes of the stream in one HandleData call,
\* with handlers that return true
OneShot(nd, n) == HandleData(NewParser, nd, Bytes(SubSeq(stream, 1, n)), n, <<>>)

\* C2.  Chunking independence: with bodies of at least one byte and handlers
\* that return true, the parser that was given the first pos bytes of the stream
\* in any chunks has made the same handler invocations and is in the same state,
\* with the same bytes buffered, as the parser given them in one call that fits
\* the store.
C2_ChunkingIndependence ==
    (/\ FramesNonEmpty
     /\ \A i \in 1..Len(log) : log[i].ok
     /\ 1 <= pos
     /\ pos <= ParserStoreSize)
      => /\ OneShot(ndebug, pos).ret
         /\ View(Parser) = View(OneShot(ndebug, pos).p)

\* two frames have arrived complete in at least three chunks, none of them ending
\* where a header or a body ends
C2_Witness ==
    /\ FramesNonEmpty
    /\ \A i \in 1..Len(log) : log[i].ok
    /\ Len(frames) = 2
    /\ pos = Len(stream)
    /\ pos <= ParserStoreSize
    /\ Len(log) = 4
    /\ last.op = "HandleData"
    /\ last.length = 2
    /\ Len(NewCalls) = 1
    /\ Len(last.before.log) = 3
    /\ View(Parser) = View(OneShot(ndebug, pos).p)

\* C3.  Frame fidelity: with frames whose bodies fit the store and a body
\* handler that returns true, however the stream is cut into chunks, each frame
\* causes exactly one header_handler call, with the length field holding the
\* big-endian value of the wire bytes and msg_type as sent, and then exactly one
\* body_handler call with that length and the frame's body bytes, frame after
\* frame in the order of arrival.
C3_FrameFidelity ==
    (FramesFit /\ \A i \in 1..Len(log) : ~IsDecline(log[i]))
      => Calls(log) = ExpectedCalls(1, pos)

\* the second frame of a stream has been delivered, its six body bytes wrapping
\* past the end of the store's array, the last chunk a single byte
C3_Witness ==
    /\ FramesFit
    /\ frames = <<6, 6>>
    /\ pos = Len(stream)
    /\ last.op = "HandleData"
    /\ last.length = 1
    /\ Len(log) = 4
    /\ log[4].kind = "body"
    /\ log[4].ok
    /\ log[4].data = SubSeq(stream, 15, 20)
    /\ log[3].header.body_length = 6

\* C4.  Headers and accepted bodies alternate, starting with a header: a header
\* is read only at the start or after the previous body was delivered and
\* accepted (or when the previous header announced no body bytes at all), and a
\* body is delivered only after its header or after that body was declined.
C4_Alternation ==
    \A i \in 1..Len(log) :
      IF log[i].kind = "header"
      THEN \/ i = 1
           \/ log[i - 1].kind = "body" /\ log[i - 1].ok
           \/ log[i - 1].kind = "header" /\ log[i - 1].header.body_length = 0
      ELSE /\ i > 1
           /\ \/ log[i - 1].kind = "header"
              \/ IsDecline(log[i - 1])

\* C6.  A HandleData call whose write reports BufferOverflow changes nothing:
\* no byte of the chunk is stored, the buffered bytes, the indices, the state
\* and the header record are as before, and no handler is invoked.
C6_OverflowRefused ==
    (last.op = "HandleData" /\ last.err = ErrBufferOverflow)
      => /\ Parser = last.before
         /\ ~last.ret

\* a chunk is refused while a body is awaited and bytes of it are buffered, and
\* a shorter chunk would have fitted
C6_Witness ==
    /\ last.op = "HandleData"
    /\ last.err = ErrBufferOverflow
    /\ recv_state = READ_BODY
    /\ rb.buffered_bytes > 0
    /\ ~full(rb)
    /\ Parser = last.before

\* C7.  HandleData returns false exactly when its write reports BufferOverflow;
\* null data and length 0, which the write rejects as InvalidParameter, return
\* true, as does a call that completes no frame.
C7_ReturnValue ==
    last.op = "HandleData" =>
      /\ last.ret <=> last.err # ErrBufferOverflow
      /\ (last.null \/ last.length = 0)
           => last.err = ErrInvalidParameter /\ last.ret
      /\ (~last.null /\ 0 < last.length
            /\ last.length <= capacity(rb) - last.before.rb.buffered_bytes)
           => last.err = ErrNone /\ last.ret

\* HandleData(nullptr, 1) has returned true with bytes buffered and no handler
\* invoked
C7_Witness ==
    /\ last.op = "HandleData"
    /\ last.null
    /\ last.length = 1
    /\ last.err = ErrInvalidParameter
    /\ last.ret
    /\ rb.buffered_bytes > 0
    /\ NewCalls = <<>>

(***************************************************************************)
(* Claims about the store under SpecStore.                                 *)
(***************************************************************************)

\* C8.  Round trip: every copying read returns exactly the oldest bytes that
\* were written and not yet consumed, in the order written, as many as asked
\* for or as are buffered; so a sequence written in any split and read back in
\* any split comes out unchanged, wherever in the array it lies.
C8_RoundTrip ==
    last.op = "read" => /\ last.out = last.expect
                        /\ last.n = Len(last.expect)

\* a read of at least three bytes, of which at least one lies before and two
\* after the physical end of the array, written by more than one write
C8_Witness ==
    /\ last.op = "read"
    /\ last.n >= 3
    /\ LET idx == BitAnd(last.before.read_index, last.before.index_mask)
           widx == BitAnd(last.before.write_index, last.before.index_mask)
       IN /\ idx + last.n >= capacity(rb) + 2
          /\ idx < capacity(rb)
          /\ widx > 0
    /\ last.out = last.expect
    /\ last.out[1] # last.out[2]

\* C9.  buffered_count equals the accepted write lengths minus the amounts read
\* or drained, lies in 0 .. capacity, and a write of 0 < L <= capacity -
\* buffered_count bytes is accepted.
C9_Accounting ==
    /\ rb.buffered_bytes = net
    /\ 0 <= rb.buffered_bytes
    /\ rb.buffered_bytes <= capacity(rb)
    /\ (/\ last.op = "write"
        /\ ~last.null
        /\ 0 < last.length
        /\ last.length <= capacity(rb) - last.before.buffered_bytes)
         => last.err = ErrNone

\* C10.  A write longer than the free space returns BufferOverflow, a write of
\* null data or of length 0 returns InvalidParameter, and neither changes the
\* store; a write that fits the free space (after a drain, say) succeeds.
C10_RejectedWrite ==
    last.op = "write" =>
      LET free == capacity(last.before) - last.before.buffered_bytes
      IN /\ (last.null \/ last.length = 0) => last.err = ErrInvalidParameter
         /\ (~last.null /\ last.length > free) => last.err = ErrBufferOverflow
         /\ (~last.null /\ 0 < last.length /\ last.length <= free) => last.err = ErrNone
         /\ last.err # ErrNone => rb = last.before

\* C11.  Zero-copy read rejection: when recv_cb returns false the call returns
\* 0, read_index and buffered_bytes are as before the call, and a copying read
\* or a zero-copy read of the same length that follows yields the same bytes.
C11_RejectedReadCb ==
    (last.op = "read_cb" /\ ~last.read_ok) =>
      /\ last.n = 0
      /\ rb.read_index = last.before.read_index
      /\ rb.buffered_bytes = last.before.buffered_bytes
      /\ last.called =>
           /\ read(rb, FALSE, last.length).out = last.out
           /\ read_cb(rb, last.length, TRUE).view = last.out
           /\ read_cb(rb, last.length, FALSE).view = last.out

\* recv_cb has declined three or more bytes that wrap past the end of the array
C11_Witness ==
    /\ last.op = "read_cb"
    /\ ~last.read_ok
    /\ last.called
    /\ Len(last.out) >= 3
    /\ BitAnd(rb.read_index, rb.index_mask) + Len(last.out) > capacity(rb)
    /\ last.n = 0
    /\ read(rb, FALSE, last.length).out = last.out

(***************************************************************************)
(* Claims about the parser under SpecSteps.                                *)
(***************************************************************************)
\* the parser before the latest iteration of the loop of the call in progress
Pre == last.step.pre

\* an iteration of the loop has run in the call in progress
Stepped == last # NoCall /\ last.stepped

\* the iteration found the parser in READ_BODY with the whole body buffered
BodyReady ==
    /\ Stepped
    /\ Pre.recv_state = READ_BODY
    /\ Pre.rb.buffered_bytes >= Pre.current_header.body_length

\* the iteration invoked body_handler with exactly the body_length oldest bytes
\* and, if body_handler returned true, consumed exactly those and went to
\* READ_HEADER with body_length 0
BodyDelivered ==
    LET len == Pre.current_header.body_length
        old == Content(Pre.rb)
    IN /\ fault = "none"
       /\ last.step.called
       /\ log = Append(Pre.log, BodyCall(SubSeq(old, 1, len), len, last.step.hv))
       /\ last.step.hv =>
            /\ Content(rb) = SubSeq(old, len + 1, Len(old))
            /\ rb.buffered_bytes = Pre.rb.buffered_bytes - len
            /\ recv_state = READ_HEADER
            /\ current_header.body_length = 0

\* C12.  In READ_BODY, whose requirement body_length > 0 is the assertion at
\* its entry, with at least body_length bytes buffered, body_handler is invoked
\* with exactly the body_length oldest buffered bytes (its length argument is
\* body_length); if it returns true exactly those bytes are consumed, the state
\* becomes READ_HEADER and body_length becomes 0.
C12_BodyDelivery ==
    (BodyReady /\ Pre.current_header.body_length > 0) => BodyDelivered

\* body_handler has accepted the six bytes of the second frame's body, which
\* wrap past the end of the array
C12_Witness ==
    /\ BodyReady
    /\ Pre.current_header.body_length = 6
    /\ BitAnd(Pre.rb.read_index, Pre.rb.index_mask) + 6 > capacity(rb)
    /\ last.step.called
    /\ last.step.hv
    /\ recv_state = READ_HEADER
    /\ Len(log) = 4

\* the iteration found the parser in READ_HEADER with a whole header buffered
HeaderReady ==
    /\ Stepped
    /\ Pre.recv_state = READ_HEADER
    /\ Pre.rb.buffered_bytes >= protocol_header_length

\* C13.  Once a complete header is buffered the parser consumes exactly
\* protocol_header_length bytes, invokes header_handler with the header (length
\* field converted) and moves to READ_BODY with that body_length, whatever
\* header_handler returns; and the handler invocation after a header that
\* announces a body is that body with the announced length, whether or not
\* header_handler returned true.
C13_HeaderAdvisory ==
    /\ HeaderReady =>
         LET old == Content(Pre.rb)
             h   == [msg_type |-> old[1] + 256 * old[2],
                     body_length |-> 256 * old[3] + old[4]]
         IN /\ last.step.called
            /\ log = Append(Pre.log, HeaderCall(h, last.step.hv))
            /\ Content(rb) = SubSeq(old, protocol_header_length + 1, Len(old))
            /\ rb.buffered_bytes = Pre.rb.buffered_bytes - protocol_header_length
            /\ recv_state = READ_BODY
            /\ current_header = h
    /\ \A i \in 1..(Len(log) - 1) :
         (log[i].kind = "header" /\ log[i].header.body_length > 0)
           => /\ log[i + 1].kind = "body"
              /\ log[i + 1].length = log[i].header.body_length

\* header_handler returned false for the header of the second frame, and the
\* six bytes of its body have been delivered all the same
C13_Witness ==
    /\ frames = <<6, 6>>
    /\ BodyReady
    /\ last.step.called
    /\ Len(log) = 4
    /\ log[3].kind = "header"
    /\ ~log[3].ok
    /\ log[4].kind = "body"
    /\ log[4].length = 6
    /\ log[4].data = SubSeq(stream, 15, 20)

(***************************************************************************)
(* Claims about the store under SpecReentrant.                             *)
(***************************************************************************)
\* C14.  Reentrancy safety of the zero-copy read: when recv_cb has called
\* write, read, drain or clear on the store and returned true, the store after
\* the commit is consistent: buffered_bytes is between 0 and capacity and the
\* buffered content is the bytes written and not yet consumed, oldest first.
C14_ReentrantCommit ==
    (last.op = "read_cb" /\ last.read_ok) =>
      /\ 0 <= rb.buffered_bytes
      /\ rb.buffered_bytes <= capacity(rb)
      /\ Content(rb) = fifo

(***************************************************************************)
(* A length field of 0, under SpecSteps.                                   *)
(***************************************************************************)
\* log[i] is a header whose converted length field is 0
ZeroHeader(i) == log[i].kind = "header" /\ log[i].header.body_length = 0

C17_ReadCbAsRead ==
    (last.op = "read_cb" /\ last.read_ok) =>
      LET c == read(last.before, FALSE, last.length)
      IN /\ last.called <=> (last.length > 0 /\ last.before.buffered_bytes > 0)
         /\ last.called => /\ last.out = c.out
                           /\ last.out = last.expect
                           /\ Len(last.out) = Min(last.length, last.before.buffered_bytes)
         /\ ~last.called => last.n = 0 /\ rb = last.before
         /\ last.n = c.n
         /\ rb.read_index = c.s.read_index
         /\ rb.buffered_bytes = c.s.buffered_bytes
         /\ rb = c.s

\* recv_cb has accepted three or more bytes that wrap past the end of the array
C17_Witness ==
    /\ last.op = "read_cb"
    /\ last.read_ok
    /\ last.called
    /\ last.n >= 3
    /\ BitAnd(last.before.read_index, last.before.index_mask) + last.n > capacity(rb)
    /\ last.out = last.expect
    /\ last.out[1] # last.out[2]
    /\ rb.buffered_bytes > 0

(***************************************************************************)
(* Termination of HandleData, under SpecStepsFair.                         *)
(***************************************************************************)
\* HandleData is in its while loop
InLoop == last # NoCall /\ last.at = "loop"

\* HandleData has returned, or the process has stopped in it on a failed assert
LoopLeft == last # NoCall /\ last.at \in {"return", "abort"}

\* C18.  Every HandleData call terminates: its loop is left after finitely many
\* iterations (by the return, or by the abort of a failed assert); and when it
\* returns true no complete unit is left buffered: in READ_HEADER the store
\* holds fewer than protocol_header_length bytes, in READ_BODY fewer than
\* body_length bytes (this also after body_handler declined a body).
C18_Terminates ==
    /\ []((last # NoCall /\ last.at = "return" /\ last.ret)
            => /\ recv_state = READ_HEADER => rb.buffered_bytes < protocol_header_length
               /\ recv_state = READ_BODY => rb.buffered_bytes < current_header.body_length)
    /\ (InLoop ~> LoopLeft)

\* a call has returned true after its loop delivered the first frame and read
\* the header of the second, with bytes of the second body left buffered
C18_Witness ==
    /\ frames = <<1, 6>>
    /\ last # NoCall
    /\ last.at = "return"
    /\ last.ret
    /\ last.stepped
    /\ Len(log) = 3
    /\ last.step.pre.log = <<log[1], log[2]>>
    /\ recv_state = READ_BODY
    /\ rb.buffered_bytes > 0
    /\ rb.buffered_bytes < 6

(***************************************************************************)
(* The free-space check of write, under SpecStore.                         *)
(***************************************************************************)
\* C19.  write's free-space check agrees with the unbounded comparison
\* length > capacity - buffered_bytes for every unsigned length and every
\* reachable buffered_bytes: the sum buffered_bytes() + length, computed in
\* unsigned arithmetic, never wraps so as to admit a write larger than the
\* free space.
C19_FreeSpaceCheck ==
    (last.op = "write" /\ ~last.null /\ last.length > 0) =>
      (write_overflows(last.before, last.length)
         <=> last.length > capacity(last.before) - last.before.buffered_bytes)

(***************************************************************************)
(* A frame longer than the parser's store, under Spec.                     *)
(***************************************************************************)
\* a header whose length field exceeds the capacity of the store has been read
Oversized == recv_state = READ_BODY /\ current_header.body_length > capacity(rb)

C21_DrainOldest ==
    last.op = "drain" =>
      LET b == last.before
          k == Min(last.length, b.buffered_bytes)
      IN /\ rb.buffered_bytes = b.buffered_bytes - k
         /\ rb.write_index = b.write_index
         /\ rb.buffer = b.buffer
         /\ rb.index_mask = b.index_mask
         /\ Content(rb) = SubSeq(Content(b), k + 1, b.buffered_bytes)
         /\ Content(rb) = fifo
         /\ fault = "none"
         /\ b.buffered_bytes = 0 =>
              /\ rb.buffered_bytes = 0
              /\ BitAnd(rb.read_index, rb.index_mask)
                   = BitAnd(b.read_index, b.index_mask)

\* a drain took some, not all, of the bytes of a store of 4 bytes or more, and
\* the bytes left lie across the end of the storage and are not all equal
C21_Witness ==
    /\ last.op = "drain"
    /\ 0 < last.length
    /\ last.length < last.before.buffered_bytes
    /\ rb.buffered_bytes >= 2
    /\ BitAnd(rb.read_index, rb.index_mask) + rb.buffered_bytes > capacity(rb)
    /\ Content(rb)[1] # Content(rb)[2]
    /\ rb.read_index # last.before.read_index

(***************************************************************************)
(* SpecClear: one caller, one store that the caller may clear.  With every *)
(* clear() a second store, fresh, is constructed with the same capacity,   *)
(* and every call that follows is made on both with the same arguments.    *)
(* A null pointer is passed with the lengths 0 and 1.                      *)
(* last holds what rb returned and, in the fields ending in 2, what fresh  *)
(* returned; of the arguments it keeps what the claim asks about: whether  *)
(* the length of a write fitted the free space (fits), whether a read      *)
(* asked for more than it got (short).                                     *)
(***************************************************************************)
ClearCapLog2 == 2
MaxClears == 1

ClearCapacities == {2 ^ k : k \in 1..ClearCapLog2}

HasFresh == fresh # NoStore

\* the store the call is repeated on (rb itself while there is no second store)
Second == IF HasFresh THEN fresh ELSE rb

\* the second store after the call
SecondAfter(s) == IF HasFresh THEN s ELSE NoStore

ClInit ==
    /\ ndebug \in BOOLEAN
    /\ fresh = NoStore
    /\ cleared = 0
    /\ fault = "none"
    /\ \E size \in ClearCapacities : rb = RingBuffer(size)
    /\ last = NoCall
    /\ fifo = <<>>
    /\ net = 0
    /\ wseq = 0
    /\ ParserUnused
    /\ ThreadsUnused

\* write(data, length)
ClWrite ==
    /\ fault = "none"
    /\ last = NoCall
    /\ \E length \in SmallLengths(rb), null \in BOOLEAN :
         /\ null => length <= 1
         /\ LET data == IF null THEN NullData ELSE Bytes(SrcRun(wseq, length))
                r    == write(rb, data, length)
                r2   == write(Second, data, length)
                free == capacity(rb) - rb.buffered_bytes
            IN /\ rb' = r.s
               /\ fresh' = SecondAfter(r2.s)
               /\ fault' = AssertOutcome(ndebug, r.s)
               /\ last' = [op |-> "write", null |-> null, both |-> HasFresh,
                           fits |-> 0 < length /\ length <= free,
                           err |-> r.err, err2 |-> r2.err]
               /\ fifo' = IF r.err = ErrNone THEN fifo \o data.bytes ELSE fifo
               /\ wseq' = IF r.err = ErrNone THEN (wseq + length) % ByteMod ELSE wseq
    /\ UNCHANGED <<ndebug, cleared, net, parserOnly, threadOnly>>

\* read(data, length)
ClRead ==
    /\ fault = "none"
    /\ last = NoCall
    /\ \E length \in SmallLengths(rb), data_null \in BOOLEAN :
         /\ data_null => length <= 1
         /\ LET r      == read(rb, data_null, length)
                r2     == read(Second, data_null, length)
                expect == IF data_null THEN <<>>
                          ELSE SubSeq(fifo, 1, Min(length, Len(fifo)))
            IN /\ rb' = r.s
               /\ fresh' = SecondAfter(r2.s)
               /\ fault' = AssertOutcome(ndebug, r.s)
               /\ last' = [op |-> "read", null |-> data_null, both |-> HasFresh,
                           short |-> length > r.n,
                           n |-> r.n, out |-> r.out, n2 |-> r2.n, out2 |-> r2.out,
                           expect |-> expect]
               /\ fifo' = SubSeq(fifo, Len(expect) + 1, Len(fifo))
    /\ UNCHANGED <<ndebug, cleared, net, wseq, parserOnly, threadOnly>>

\* read(length, recv_cb) with a callback that returns read_ok
ClReadCb ==
    /\ fault = "none"
    /\ last = NoCall
    /\ \E length \in SmallLengths(rb), read_ok \in BOOLEAN :
         LET r      == read_cb(rb, length, read_ok)
             r2     == read_cb(Second, length, read_ok)
             expect == SubSeq(fifo, 1, Min(length, Len(fifo)))
         IN /\ rb' = r.s
            /\ fresh' = SecondAfter(r2.s)
            /\ fault' = AssertOutcome(ndebug, r.s)
            /\ last' = [op |-> "read_cb", read_ok |-> read_ok, both |-> HasFresh,
                        n |-> r.n, called |-> r.called, out |-> r.view,
                        n2 |-> r2.n, called2 |-> r2.called, out2 |-> r2.view,
                        expect |-> expect]
            /\ fifo' = IF read_ok THEN SubSeq(fifo, Len(expect) + 1, Len(fifo)) ELSE fifo
    /\ UNCHANGED <<ndebug, cleared, net, wseq, parserOnly, threadOnly>>

\* drain(length)
ClDrain ==
    /\ fault = "none"
    /\ last = NoCall
    /\ \E length \in SmallLengths(rb) :
         /\ rb' = drain(rb, length)
         /\ fresh' = SecondAfter(drain(Second, length))
         /\ fault' = AssertOutcome(ndebug, rb')
         /\ last' = [op |-> "drain", both |-> HasFresh]
         /\ fifo' = SubSeq(fifo, Min(length, Len(fifo)) + 1, Len(fifo))
    /\ UNCHANGED <<ndebug, cleared, net, wseq, parserOnly, threadOnly>>

\* clear(); the second store is constructed anew
ClClear ==
    /\ fault = "none"
    /\ last = NoCall
    /\ cleared < MaxClears
    /\ rb' = clear(rb)
    /\ fresh' = RingBuffer(capacity(rb))
    /\ cleared' = cleared + 1
    /\ last' = [op |-> "clear", before |-> rb]
    /\ fifo' = <<>>
    /\ UNCHANGED <<ndebug, fault, net, wseq, parserOnly, threadOnly>>

\* the caller has taken the result of its last call; its next call can start
ClReturn ==
    /\ fault = "none"
    /\ last # NoCall
    /\ last' = NoCall
    /\ UNCHANGED <<ndebug, fresh, cleared, fault, rb, storeOnly, parserOnly, threadOnly>>

ClNext ==
    \/ ClWrite
    \/ ClRead
    \/ ClReadCb
    \/ ClDrain
    \/ ClClear
    \/ ClReturn

SpecClear == ClInit /\ [][ClNext]_vars

(***************************************************************************)
(* clear, under SpecClear.                                                 *)
(***************************************************************************)
\* the last call was made on both stores
OnBoth == last # NoCall /\ last.op # "clear" /\ last.both

\* C22.  clear() sets read_index, write_index and buffered_bytes to 0 and
\* leaves the capacity (and the storage) as they were; from then on the store
\* behaves as a store newly constructed with that capacity: every later call
\* returns on it what it returns on the new store and leaves the same indices,
\* count and content; a read returns the bytes written since and never a
\* stale byte of the storage; and a write that fits the capacity is accepted.
C22_ClearIsFresh ==
    /\ last.op = "clear" =>
         /\ rb.read_index = 0
         /\ rb.write_index = 0
         /\ rb.buffered_bytes = 0
         /\ capacity(rb) = capacity(last.before)
         /\ rb.index_mask = last.before.index_mask
         /\ rb.buffer = last.before.buffer
    /\ HasFresh =>
         /\ capacity(rb) = capacity(fresh)
         /\ rb.index_mask = fresh.index_mask
         /\ rb.read_index = fresh.read_index
         /\ rb.write_index = fresh.write_index
         /\ rb.buffered_bytes = fresh.buffered_bytes
         /\ Content(rb) = Content(fresh)
         /\ Content(rb) = fifo
    /\ OnBoth =>
         /\ last.op = "write" => last.err = last.err2
         /\ last.op \in {"read", "read_cb"} =>
              /\ last.n = last.n2
              /\ last.out = last.out2
         /\ last.op = "read_cb" => last.called = last.called2
         /\ (last.op = "read" /\ ~last.null) => last.out = last.expect
         /\ (last.op = "read_cb" /\ last.called) => last.out = last.expect
         /\ (last.op = "write" /\ ~last.null /\ last.fits) => last.err = ErrNone

\* a store that was cleared while full has since been written in part, and a
\* read that asked for more than was written has returned the new bytes only,
\* while the storage still holds old bytes where the new store holds none
C22_Witness ==
    /\ OnBoth
    /\ last.op = "read"
    /\ ~last.null
    /\ last.n >= 2
    /\ last.short
    /\ last.out = last.expect
    /\ last.out[1] # last.out[2]
    /\ rb.buffer # fresh.buffer
    /\ \E p \in 1..capacity(rb) : rb.buffer[p] # 0 /\ fresh.buffer[p] = 0

=============================================================================
